---------------------------- MODULE Spec2Model ----------------------------
(***************************************************************************)
(* Q2C / EduRAG: retrieval orchestration and conversation memory.          *)
(*                                                                         *)
(* Text is modelled as a sequence of one-character strings, so that        *)
(* lower(), split(), slicing and concatenation are computed as Python      *)
(* computes them.  A score is a rational <<num, den>> with den > 0, so     *)
(* that 1/(overlap+1), 1.0 and 1.2 are exact.                              *)
(***************************************************************************)
EXTENDS Integers, Sequences, FiniteSets, TLC

(***************************************************************************)
(* Text helpers                                                            *)
(***************************************************************************)

\* str.lower() on one character.
LowerMap ==
    [A |-> "a", B |-> "b", C |-> "c", D |-> "d", E |-> "e", F |-> "f",
     G |-> "g", H |-> "h", I |-> "i", J |-> "j", K |-> "k", L |-> "l",
     M |-> "m", N |-> "n", O |-> "o", P |-> "p", Q |-> "q", R |-> "r",
     S |-> "s", T |-> "t", U |-> "u", V |-> "v", W |-> "w", X |-> "x",
     Y |-> "y", Z |-> "z"]

LowerChar(c) == IF c \in DOMAIN LowerMap THEN LowerMap[c] ELSE c

\* str.lower()
Lower(s) == [i \in 1..Len(s) |-> LowerChar(s[i])]

\* The characters str.split() and str.strip() treat as whitespace.
Whitespace == {" ", "\n", "\t"}

\* str.split(): the maximal runs of non-whitespace characters, in order.
Split(s) ==
    LET n      == Len(s)
        starts == {i \in 1..n : /\ s[i] \notin Whitespace
                                /\ (i = 1 \/ s[i - 1] \in Whitespace)}
        ends   == {j \in 1..n : /\ s[j] \notin Whitespace
                                /\ (j = n \/ s[j + 1] \in Whitespace)}
        Nth(S, k) == CHOOSE i \in S : Cardinality({j \in S : j < i}) = k - 1
    IN  [k \in 1..Cardinality(starts) |->
            SubSeq(s, Nth(starts, k), Nth(ends, k))]

\* set(seq)
ToSet(seq) == {seq[i] : i \in 1..Len(seq)}

\* seq[:n] for n >= 0
Take(seq, n) == SubSeq(seq, 1, IF n < Len(seq) THEN n ELSE Len(seq))

\* seq[-n:] for n > 0
Last(seq, n) ==
    IF Len(seq) <= n THEN seq ELSE SubSeq(seq, Len(seq) - n + 1, Len(seq))

\* n copies of the character c
Rep(c, n) == [i \in 1..n |-> c]

\* str.strip()
Strip(s) ==
    LET kept == {i \in 1..Len(s) : s[i] \notin Whitespace}
    IN  IF kept = {} THEN <<>>
        ELSE SubSeq(s, CHOOSE i \in kept : \A j \in kept : i <= j,
                       CHOOSE i \in kept : \A j \in kept : j <= i)

\* The concatenation of the first n sequences of seqs.
RECURSIVE ConcatFirst(_, _)
ConcatFirst(seqs, n) ==
    IF n = 0 THEN <<>> ELSE ConcatFirst(seqs, n - 1) \o seqs[n]

Concat(seqs) == ConcatFirst(seqs, Len(seqs))

\* sep.join(parts)
Join(sep, parts) ==
    Concat([i \in 1..Len(parts) |->
               IF i = 1 THEN parts[i] ELSE sep \o parts[i]])

\* sub in s, for strings
Contains(s, sub) ==
    \E i \in 0..(Len(s) - Len(sub)) : SubSeq(s, i + 1, i + Len(sub)) = sub

\* os.path.basename(path): what follows the last "/"
Basename(path) ==
    LET slashes == {i \in 1..Len(path) : path[i] = "/"}
    IN  IF slashes = {} THEN path
        ELSE SubSeq(path,
                    (CHOOSE i \in slashes : \A j \in slashes : j <= i) + 1,
                    Len(path))

\* str(n) for an integer n >= 0
Digits == <<"0", "1", "2", "3", "4", "5", "6", "7", "8", "9">>

RECURSIVE Str(_)
Str(n) ==
    IF n < 10 THEN <<Digits[n + 1]>>
    ELSE Append(Str(n \div 10), Digits[(n % 10) + 1])

(***************************************************************************)
(* String literals of the source                                           *)
(***************************************************************************)

\* 'Please analyze this image'
DefaultUserContent ==
    <<"P", "l", "e", "a", "s", "e", " ", "a", "n", "a", "l", "y", "z", "e",
    " ", "t", "h", "i", "s", " ", "i", "m", "a", "g", "e">>

\* 'Please analyze this image and explain what you see'
DefaultQueryText ==
    <<"P", "l", "e", "a", "s", "e", " ", "a", "n", "a", "l", "y", "z", "e",
    " ", "t", "h", "i", "s", " ", "i", "m", "a", "g", "e", " ", "a", "n",
    "d", " ", "e", "x", "p", "l", "a", "i", "n", " ", "w", "h", "a", "t",
    " ", "y", "o", "u", " ", "s", "e", "e">>

\* 'Student'
StudentRole == <<"S", "t", "u", "d", "e", "n", "t">>

\* 'Assistant'
AssistantRole == <<"A", "s", "s", "i", "s", "t", "a", "n", "t">>

\* ': '
ColonSpace == <<":", " ">>

\* ' [Student also shared an image]'
ImageMarker ==
    <<" ", "[", "S", "t", "u", "d", "e", "n", "t", " ", "a", "l", "s", "o",
    " ", "s", "h", "a", "r", "e", "d", " ", "a", "n", " ", "i", "m", "a",
    "g", "e", "]">>

\* 'Student: '
StudentPrefix == <<"S", "t", "u", "d", "e", "n", "t", ":", " ">>

\* '\nAssistant: '
AssistantInfix ==
    <<"\n", "A", "s", "s", "i", "s", "t", "a", "n", "t", ":", " ">>

\* '\n'
Newline == <<"\n">>

\* '\n\n'
BlankLine == <<"\n", "\n">>

\* ' '
SpaceSep == <<" ">>

\* 'Unknown'
UnknownSource == <<"U", "n", "k", "n", "o", "w", "n">>

\* 'N/A'
NoPage == <<"N", "/", "A">>

\* 'Source '
SourceWord == <<"S", "o", "u", "r", "c", "e", " ">>

\* ' ('
OpenParen == <<" ", "(">>

\* ', Page '
PageWord == <<",", " ", "P", "a", "g", "e", " ">>

\* '):\n'
CloseHeader == <<")", ":", "\n">>

\* "I'm sorry, I encountered an error while processing your question: "
ErrorPrefix ==
    <<"I", "'", "m", " ", "s", "o", "r", "r", "y", ",", " ", "I", " ", "e",
    "n", "c", "o", "u", "n", "t", "e", "r", "e", "d", " ", "a", "n", " ",
    "e", "r", "r", "o", "r", " ", "w", "h", "i", "l", "e", " ", "p", "r",
    "o", "c", "e", "s", "s", "i", "n", "g", " ", "y", "o", "u", "r", " ",
    "q", "u", "e", "s", "t", "i", "o", "n", ":", " ">>

(***************************************************************************)
(* Scores                                                                  *)
(***************************************************************************)

ScoreLT(a, b) == a[1] * b[2] < b[1] * a[2]
ScoreLE(a, b) == a[1] * b[2] <= b[1] * a[2]
ScoreEQ(a, b) == a[1] * b[2] = b[1] * a[2]

\* sorted(results, key=lambda x: x[1]): ascending by score and stable.
\* Each element is a pair <<doc, score>>; element i goes to the place
\* after the elements with a lower score and the earlier ones with the
\* same score.
SortedByScore(seq) ==
    LET Rank(i) ==
            Cardinality({j \in 1..Len(seq) :
                            \/ ScoreLT(seq[j][2], seq[i][2])
                            \/ ScoreEQ(seq[j][2], seq[i][2]) /\ j < i}) + 1
    IN  [r \in 1..Len(seq) |->
            seq[CHOOSE i \in 1..Len(seq) : Rank(i) = r]]

(***************************************************************************)
(* The vector store (external collaborator)                                *)
(*                                                                         *)
(* A vector store is a record [documents, metadatas]: the parallel arrays  *)
(* vectorstore.get() dumps.  The embedding distance of each stored chunk   *)
(* to the query of a call is an input of that call: dist[i] is the         *)
(* distance of chunk i.                                                    *)
(***************************************************************************)

Document(text, metadata) == [page_content |-> text, metadata |-> metadata]

\* vectorstore.get()
Get(vectorstore) ==
    [documents |-> vectorstore.documents, metadatas |-> vectorstore.metadatas]

\* vectorstore.similarity_search_with_score(query, k): the k nearest chunks
\* with their distances, nearest first.
similarity_search_with_score(vectorstore, dist, k) ==
    Take(SortedByScore(
             [i \in 1..Len(vectorstore.documents) |->
                 <<Document(vectorstore.documents[i], vectorstore.metadatas[i]),
                   dist[i]>>]),
         k)

(***************************************************************************)
(* backend_multimodal.hybrid_search                                        *)
(***************************************************************************)

\* The length of the content prefix that is hashed for deduplication.
FingerprintLen == 100

\* hash(doc.page_content[:100]); the hash of a string is identified with
\* the string hashed.
content_hash(doc) == Take(doc.page_content, FingerprintLen)

\* A lexical scan that scores a candidate 1/overlap.
keyword_matches_by_overlap(vectorstore, query) ==
    LET all_docs    == Get(vectorstore)
        query_words == ToSet(Split(Lower(query)))
        Overlap(i) ==
            Cardinality(query_words
                        \cap ToSet(Split(Lower(all_docs.documents[i]))))
        Matches(i)  == Overlap(i) > 0
        matched     == SelectSeq([i \in 1..Len(all_docs.documents) |-> i],
                                 Matches)
    IN  [i \in 1..Len(matched) |->
            <<Document(all_docs.documents[matched[i]],
                       all_docs.metadatas[matched[i]]),
              <<1, Overlap(matched[i])>>>>]

\* The lexical scan of hybrid_search: one candidate per chunk sharing at
\* least one whitespace token with the query, scored 1/(overlap+1), in
\* the order of the store.
keyword_matches(vectorstore, query) ==
    LET all_docs    == Get(vectorstore)
        query_words == ToSet(Split(Lower(query)))
        n == IF Len(all_docs.documents) < Len(all_docs.metadatas)
             THEN Len(all_docs.documents) ELSE Len(all_docs.metadatas)
        Overlap(i) ==
            Cardinality(query_words
                        \cap ToSet(Split(Lower(all_docs.documents[i]))))
        scanned ==
            [i \in 1..n |->
                [doc     |-> Document(all_docs.documents[i],
                                      all_docs.metadatas[i]),
                 overlap |-> Overlap(i)]]
        Matches(c) == c.overlap > 0
        matched == SelectSeq(scanned, Matches)
    IN  IF "documents" \in DOMAIN all_docs /\ "metadatas" \in DOMAIN all_docs
        THEN [i \in 1..Len(matched) |->
                 <<matched[i].doc, <<1, matched[i].overlap + 1>>>>]
        ELSE <<>>

\* hybrid_search without its deduplication: every result is kept.
keep_all_results(all_results) == all_results

\* The seen_content loop: a result is kept when no earlier result of the
\* list has its content hash.
unique_results(all_results) ==
    LET indexed == [i \in 1..Len(all_results) |->
                       [at |-> i, item |-> all_results[i]]]
        First(e) == \A j \in 1..(e.at - 1) :
                        content_hash(all_results[j][1])
                            # content_hash(e.item[1])
        kept == SelectSeq(indexed, First)
    IN  [i \in 1..Len(kept) |-> kept[i].item]

\* hybrid_search with the keyword matches put before the semantic results.
keyword_first_search(vectorstore, dist, query, k) ==
    LET semantic_docs == similarity_search_with_score(vectorstore, dist, k)
        all_results   == keyword_matches(vectorstore, query) \o semantic_docs
    IN  Take(SortedByScore(unique_results(all_results)), k)

\* The semantic results, then the keyword matches; the first result of each
\* content hash; sorted by score; the first k.
hybrid_search(vectorstore, dist, query, k) ==
    LET semantic_docs == similarity_search_with_score(vectorstore, dist, k)
        all_results   == semantic_docs \o keyword_matches(vectorstore, query)
    IN  Take(SortedByScore(unique_results(all_results)), k)

\* The frame of one call of hybrid_search: its arguments, the distances the
\* embedding gives, and the locals it builds up to the list it returns.
hybrid_search_frame(store, dist, query, k) ==
    [query           |-> query,
     k               |-> k,
     dist            |-> dist,
     semantic_docs   |-> similarity_search_with_score(store, dist, k),
     keyword_matches |-> keyword_matches(store, query),
     result          |-> hybrid_search(store, dist, query, k)]

(***************************************************************************)
(* backend_multimodal.preprocess_query                                     *)
(***************************************************************************)

\* The synonym table, in the order the dict is iterated.
physics_synonyms ==
    <<
    [key |-> <<"c", "h", "a", "p", "t", "e", "r", "s">>,
     synonyms |-> <<
        <<"t", "o", "p", "i", "c", "s">>,
        <<"s", "e", "c", "t", "i", "o", "n", "s">>,
        <<"u", "n", "i", "t", "s">>
     >>],
    [key |-> <<"p", "h", "y", "s", "i", "c", "s">>,
     synonyms |-> <<
        <<"p", "h", "y", "s", "i", "c", "a", "l", " ", "s", "c", "i", "e", "n", "c", "e">>,
        <<"m", "e", "c", "h", "a", "n", "i", "c", "s">>,
        <<"m", "o", "t", "i", "o", "n">>
     >>],
    [key |-> <<"e", "n", "e", "r", "g", "y">>,
     synonyms |-> <<
        <<"p", "o", "w", "e", "r">>,
        <<"f", "o", "r", "c", "e">>,
        <<"w", "o", "r", "k">>
     >>],
    [key |-> <<"c", "o", "n", "s", "e", "r", "v", "a", "t", "i", "o", "n">>,
     synonyms |-> <<
        <<"p", "r", "e", "s", "e", "r", "v", "a", "t", "i", "o", "n">>,
        <<"c", "o", "n", "s", "t", "a", "n", "t">>
     >>],
    [key |-> <<"l", "a", "w">>,
     synonyms |-> <<
        <<"p", "r", "i", "n", "c", "i", "p", "l", "e">>,
        <<"r", "u", "l", "e">>,
        <<"t", "h", "e", "o", "r", "e", "m">>
     >>],
    [key |-> <<"m", "o", "t", "i", "o", "n">>,
     synonyms |-> <<
        <<"m", "o", "v", "e", "m", "e", "n", "t">>,
        <<"k", "i", "n", "e", "m", "a", "t", "i", "c", "s">>
     >>],
    [key |-> <<"e", "l", "e", "c", "t", "r", "i", "c", "i", "t", "y">>,
     synonyms |-> <<
        <<"e", "l", "e", "c", "t", "r", "i", "c">>,
        <<"e", "l", "e", "c", "t", "r", "i", "c", "a", "l">>,
        <<"c", "u", "r", "r", "e", "n", "t">>
     >>],
    [key |-> <<"m", "a", "g", "n", "e", "t", "i", "s", "m">>,
     synonyms |-> <<
        <<"m", "a", "g", "n", "e", "t", "i", "c">>,
        <<"m", "a", "g", "n", "e", "t">>
     >>],
    [key |-> <<"l", "i", "g", "h", "t">>,
     synonyms |-> <<
        <<"o", "p", "t", "i", "c", "s">>,
        <<"o", "p", "t", "i", "c", "a", "l">>,
        <<"r", "a", "y", "s">>
     >>],
    [key |-> <<"w", "a", "v", "e", "s">>,
     synonyms |-> <<
        <<"w", "a", "v", "e">>,
        <<"v", "i", "b", "r", "a", "t", "i", "o", "n">>,
        <<"o", "s", "c", "i", "l", "l", "a", "t", "i", "o", "n">>
     >>]
    >>

\* An inner loop that matches only the keys that are part of the term.
SynonymsOfKeysInTerm(term) ==
    Concat([j \in 1..Len(physics_synonyms) |->
               IF Contains(term, physics_synonyms[j].key)
               THEN physics_synonyms[j].synonyms
               ELSE <<>>])

\* The inner loop over physics_synonyms.items() for one term: the
\* synonyms of every key the term is part of or that is part of the term.
SynonymsOf(term) ==
    Concat([j \in 1..Len(physics_synonyms) |->
               IF \/ Contains(physics_synonyms[j].key, term)
                  \/ Contains(term, physics_synonyms[j].key)
               THEN physics_synonyms[j].synonyms
               ELSE <<>>])

\* An expansion that lists all the terms first and the synonyms after them.
TermsThenSynonyms(query) ==
    LET query_terms == Split(Strip(Lower(query)))
    IN  query_terms \o Concat([i \in 1..Len(query_terms) |->
                                  SynonymsOf(query_terms[i])])

\* The outer loop over query_terms: each term, then its synonyms.
expanded_terms(query) ==
    LET query_terms == Split(Strip(Lower(query)))
    IN  Concat([i \in 1..Len(query_terms) |->
                   <<query_terms[i]>> \o SynonymsOf(query_terms[i])])

\* preprocess_query(query) = <<query, expanded_query>>
preprocess_query(query) == <<query, Join(SpaceSep, expanded_terms(query))>>

(***************************************************************************)
(* The chat request of streamlit_app.py and streamlit_app_multilingual.py  *)
(***************************************************************************)

\* similarity_threshold = 1.2 and the widening limit 1.0
similarity_threshold == <<6, 5>>
widening_limit == <<1, 1>>

\* The k of Stage 1, the k of Stage 2, the length the merged list is cut
\* to, and the size of the fallback when nothing passes the threshold.
Stage1K == 5
Stage2K == 3
MergedK == 5
FallbackTop == 3

\* The history window, and the context limit and the tail kept beyond it.
HistoryWindow == 6
ContextLimit == 2000
ContextKeep == 1000

\* A widening test that also fires at the limit itself.
WidenAtLimit(docs) == docs # <<>> /\ ScoreLE(widening_limit, docs[1][2])

\* "if docs_with_scores and docs_with_scores[0][1] > 1.0"
Widen(docs) == docs # <<>> /\ ScoreLT(widening_limit, docs[1][2])

\* A combination that puts the stage 2 results before those of stage 1.
CombineExpandedFirst(docs, expanded) ==
    Take(SortedByScore(unique_results(expanded \o docs)), MergedK)

\* "Combine and deduplicate results": stage 1 then stage 2, the first
\* result of each content hash, sorted by score, the first five.
Combine(docs, expanded) ==
    Take(SortedByScore(unique_results(docs \o expanded)), MergedK)

\* A threshold filter that also keeps a score equal to the threshold.
AtOrBelowThreshold(docs) ==
    LET Passes(d) == ScoreLE(d[2], similarity_threshold)
        passed    == SelectSeq(docs, Passes)
    IN  [i \in 1..Len(passed) |-> passed[i][1]]

\* [doc for doc, score in docs_with_scores if score < similarity_threshold]
BelowThreshold(docs) ==
    LET Passes(d) == ScoreLT(d[2], similarity_threshold)
        passed    == SelectSeq(docs, Passes)
    IN  [i \in 1..Len(passed) |-> passed[i][1]]

\* "3. Filter documents by similarity threshold" with its top-3 fallback.
RelevantDocs(docs) ==
    LET filtered == BelowThreshold(docs)
        top      == Take(docs, FallbackTop)
    IN  IF filtered = <<>>
        THEN [i \in 1..Len(top) |-> top[i][1]]
        ELSE filtered

\* metadata.get('source', 'Unknown') and metadata.get('page', 'N/A').  A
\* page is an integer in the store; the value read is [int |-> n] for the
\* integer n and [str |-> 'N/A'] for the default.
GetSource(metadata) ==
    IF "source" \in DOMAIN metadata THEN metadata.source ELSE UnknownSource

GetPage(metadata) ==
    IF "page" \in DOMAIN metadata
    THEN [int |-> metadata.page]
    ELSE [str |-> NoPage]

\* f"{page}"
FormatPage(page) == IF "int" \in DOMAIN page THEN Str(page.int) ELSE page.str

\* "4. Prepare context with more information"
ContextParts(relevant) ==
    [i \in 1..Len(relevant) |->
        SourceWord \o Str(i) \o OpenParen \o GetSource(relevant[i].metadata)
        \o PageWord \o FormatPage(GetPage(relevant[i].metadata))
        \o CloseHeader \o relevant[i].page_content]

Context(relevant) == Join(BlankLine, ContextParts(relevant))

\* A history that renders the in-flight message too.
HistoryWithLast(msgs) ==
    IF Len(msgs) > 1
    THEN LET recent_messages == Last(msgs, HistoryWindow)
         IN  [i \in 1..Len(recent_messages) |->
                 (IF recent_messages[i].role = "user"
                  THEN StudentRole ELSE AssistantRole)
                 \o ColonSpace \o recent_messages[i].content
                 \o (IF recent_messages[i].has_image
                     THEN ImageMarker ELSE <<>>)]
    ELSE <<>>

\* "5. Prepare conversation history": one line per message of the last six
\* but the last.
HistoryLine(msg) ==
    (IF msg.role = "user" THEN StudentRole ELSE AssistantRole)
    \o ColonSpace \o msg.content
    \o (IF msg.has_image THEN ImageMarker ELSE <<>>)

HistoryParts(msgs) ==
    IF Len(msgs) > 1
    THEN LET recent_messages == Last(msgs, HistoryWindow)
         IN  [i \in 1..(Len(recent_messages) - 1) |->
                 HistoryLine(recent_messages[i])]
    ELSE <<>>

ConversationHistory(msgs) == Join(Newline, HistoryParts(msgs))

\* "Prepare sources information": one entry per relevant document;
\* streamlit_app_multilingual.py skips an entry already in the list.
SourceInfo(doc) ==
    [source |-> Basename(GetSource(doc.metadata)),
     page   |-> GetPage(doc.metadata)]

\* dedup is "if source_info not in sources": an entry is kept when no
\* earlier document gave the same entry.
SourcesOf(dedup, relevant) ==
    LET indexed == [i \in 1..Len(relevant) |->
                       [at |-> i, info |-> SourceInfo(relevant[i])]]
        Kept(e) == \/ ~dedup
                   \/ \A j \in 1..(e.at - 1) :
                          SourceInfo(relevant[j]) # e.info
        kept == SelectSeq(indexed, Kept)
    IN  [i \in 1..Len(kept) |-> kept[i].info]

Sources(a, relevant) ==
    SourcesOf(a = "streamlit_app_multilingual", relevant)

\* "Update conversation context" of streamlit_app.py
NewContext(text, answer) == StudentPrefix \o text \o AssistantInfix \o answer

\* A context update that never cuts the old context.
NeverTruncated(old, new_context) == old \o Newline \o new_context

\* A context update that cuts the old context only beyond 3000 characters.
TruncatedLate(old, new_context) ==
    IF Len(old) > 3000
    THEN Last(old, ContextKeep) \o Newline \o new_context
    ELSE old \o Newline \o new_context

UpdatedContext(old, new_context) ==
    IF Len(old) > ContextLimit
    THEN Last(old, ContextKeep) \o Newline \o new_context
    ELSE old \o Newline \o new_context

(***************************************************************************)
(* Inputs                                                                  *)
(***************************************************************************)

\* 'What is Energy'
QueryEnergy ==
    <<"W", "h", "a", "t", " ", "i", "s", " ", "E", "n", "e", "r", "g", "y">>

\* 'Conservation'
QueryConservation ==
    <<"C", "o", "n", "s", "e", "r", "v", "a", "t", "i", "o", "n">>

\* 'Energy is conserved.'
ResultText ==
    <<"E", "n", "e", "r", "g", "y", " ", "i", "s", " ", "c", "o", "n", "s",
    "e", "r", "v", "e", "d", ".">>

\* 'timeout'
ErrorText == <<"t", "i", "m", "e", "o", "u", "t">>

\* 'data/physics.pdf'
PathPhysics ==
    <<"d", "a", "t", "a", "/", "p", "h", "y", "s", "i", "c", "s", ".", "p",
    "d", "f">>

\* 'notes.txt'
PathNotes == <<"n", "o", "t", "e", "s", ".", "t", "x", "t">>

\* '/srv/books/optics.pdf'
PathOptics ==
    <<"/", "s", "r", "v", "/", "b", "o", "o", "k", "s", "/", "o", "p", "t",
    "i", "c", "s", ".", "p", "d", "f">>

\* "Newton's first law states..."
TextNewton ==
    <<"N", "e", "w", "t", "o", "n", "'", "s", " ", "f", "i", "r", "s", "t",
    " ", "l", "a", "w", " ", "s", "t", "a", "t", "e", "s", ".", ".", ".">>

\* 'energy is conserved'
TextEnergy ==
    <<"e", "n", "e", "r", "g", "y", " ", "i", "s", " ", "c", "o", "n", "s",
    "e", "r", "v", "e", "d">>

\* 'constant power'
TextConstant ==
    <<"c", "o", "n", "s", "t", "a", "n", "t", " ", "p", "o", "w", "e", "r">>

\* 'work and force'
TextWork ==
    <<"w", "o", "r", "k", " ", "a", "n", "d", " ", "f", "o", "r", "c", "e">>

\* 'rule of motion'
TextRule ==
    <<"r", "u", "l", "e", " ", "o", "f", " ", "m", "o", "t", "i", "o", "n">>

\* 'light rays'
TextLight == <<"l", "i", "g", "h", "t", " ", "r", "a", "y", "s">>

\* 'see the image'
TextImage ==
    <<"s", "e", "e", " ", "t", "h", "e", " ", "i", "m", "a", "g", "e">>

\* 'waves and vibration'
TextWaves ==
    <<"w", "a", "v", "e", "s", " ", "a", "n", "d", " ", "v", "i", "b", "r",
    "a", "t", "i", "o", "n">>

\* The index stores a session may run over.
EmptyStore == [documents |-> <<>>, metadatas |-> <<>>]

SmallStore ==
    [documents |-> <<TextNewton>>,
     metadatas |-> <<[source |-> PathPhysics, page |-> 12]>>]

BigStore ==
    [documents |-> <<TextEnergy, TextConstant, TextWork, TextRule,
                     TextLight, TextImage, TextWaves>>,
     metadatas |-> <<[source |-> PathPhysics, page |-> 3],
                     [source |-> PathPhysics, page |-> 3],
                     [source |-> PathPhysics],
                     [source |-> PathNotes, page |-> 7],
                     [page |-> 1],
                     [source |-> PathOptics, page |-> 10],
                     [source |-> PathNotes, page |-> 7]>>]

StorePool == {EmptyStore, SmallStore, BigStore}

\* The embedding distances a search call may see: chunk i of n is at
\* distance Distance(profile, i).
DistanceProfiles == {"near", "far", "edge", "rising", "falling"}

Distance(profile, i) ==
    CASE profile = "near"    -> <<1, 4>>
      [] profile = "far"     -> <<11, 10>>
      [] profile = "edge"    -> <<6, 5>>
      [] profile = "rising"  -> <<9 + i, 10>>
      [] profile = "falling" -> <<19 - i, 10>>

Distances(profile, store) ==
    [i \in 1..Len(store.documents) |-> Distance(profile, i)]

\* What the user submits in one run: the text (empty when none was typed
\* or spoken) and whether an image is uploaded.
InputPool ==
    {<<QueryEnergy, FALSE>>, <<QueryConservation, TRUE>>, <<<<>>, TRUE>>}

\* The conversations explored.  While a conversation has fewer than
\* MaxVaried messages, every input of the pool is tried over every index.
\* Longer conversations, up to MaxMessages messages, are followed over
\* the empty index (where every retrieval returns nothing) with LateInput.
MaxMessages == 7
MaxVaried == 2

LateInput == <<<<>>, TRUE>>

Explored(store, msgs, input) ==
    \/ Len(msgs) < MaxVaried
    \/ /\ Len(msgs) < MaxMessages
       /\ store = EmptyStore
       /\ input = LateInput

(***************************************************************************)
(* State                                                                   *)
(***************************************************************************)

VARIABLES
    app,                   \* which program runs
    vectorstore,           \* the loaded index, or None
    chain,                 \* the loaded generation chain, or None
    messages,              \* st.session_state.messages
    conversation_context,  \* st.session_state.conversation_context
    pc,                    \* where the program is
    query_text, original_query, expanded_query,
    docs_with_scores, expanded_docs, relevant_docs,
    context, conversation_history, result, sources,
    stage1_docs,           \* <<docs>> once Stage 1 returned docs, else <<>>
    calls,                 \* the collaborator calls of this run, in order
    before,                \* the session memory when the run began
    failed,                \* whether the run ended in its except handler
    search,                \* the frame of the last hybrid_search call
    expansion,             \* the frame of the last direct preprocess_query call
    request,               \* the body of the last POST /ask
    response,              \* the response to the last POST /ask
    init_runs              \* how often the initialisation block of app.py ran

session == <<messages, conversation_context>>
config  == <<app, vectorstore, chain>>
locals  == <<query_text, original_query, expanded_query, docs_with_scores,
             expanded_docs, relevant_docs, context, conversation_history,
             result, sources>>
chat    == <<messages, conversation_context, query_text, original_query,
             expanded_query, docs_with_scores, expanded_docs, relevant_docs,
             context, conversation_history, result, sources, stage1_docs,
             before, failed>>
server  == <<request, response, init_runs>>
outside == <<search, expansion, request, response, init_runs>>
vars    == <<app, vectorstore, chain, messages, conversation_context, pc,
             query_text, original_query, expanded_query, docs_with_scores,
             expanded_docs, relevant_docs, context, conversation_history,
             result, sources, stage1_docs, calls, before, failed, search,
             expansion, request, response, init_runs>>

\* Python's None, for the variables that hold records.
None == [none |-> TRUE]

\* The chain load_models and app.py build.
LoadedChain == [llm |-> "gemini", prompt |-> "PROMPT"]

Apps == {"streamlit_app", "streamlit_app_multilingual"}

\* The values the locals of a run have before it assigns them.
NoLocals ==
    /\ query_text = <<>>
    /\ original_query = <<>>
    /\ expanded_query = <<>>
    /\ docs_with_scores = <<>>
    /\ expanded_docs = <<>>
    /\ relevant_docs = <<>>
    /\ context = <<>>
    /\ conversation_history = <<>>
    /\ result = <<>>
    /\ sources = <<>>

\* No run has left a trace yet.
NoRun ==
    /\ stage1_docs = <<>>
    /\ calls = <<>>
    /\ before = [messages |-> <<>>, conversation_context |-> <<>>]
    /\ failed = FALSE

\* No direct search call and no HTTP request has been made.
NoOutside ==
    /\ search = None
    /\ expansion = None
    /\ request = None
    /\ response = None
    /\ init_runs = 0

Init ==
    /\ app \in Apps
    /\ vectorstore \in StorePool
    /\ chain = LoadedChain
    /\ messages = <<>>
    /\ conversation_context = <<>>
    /\ pc = "idle"
    /\ NoLocals
    /\ NoRun
    /\ NoOutside

\* One entry of the call log: ok tells whether the call returned or raised.
Call(fn, query, k, ok) == [fn |-> fn, query |-> query, k |-> k, ok |-> ok]

UserMessage(prompt, image_data) ==
    [role      |-> "user",
     content   |-> IF prompt # <<>> THEN prompt ELSE DefaultUserContent,
     has_image |-> image_data,
     sources   |-> <<>>]

AssistantMessage(text, srcs) ==
    [role |-> "assistant", content |-> text, has_image |-> FALSE,
     sources |-> srcs]

\* The run starts on a prompt or an image: the user message is appended
\* and the query preprocessed.
Submit(prompt, image_data) ==
    /\ pc = "idle"
    /\ prompt # <<>> \/ image_data
    /\ messages' = Append(messages, UserMessage(prompt, image_data))
    /\ LET text == IF prompt # <<>> THEN prompt ELSE DefaultQueryText
       IN  /\ query_text' = text
           /\ original_query' = Head(preprocess_query(text))
           /\ expanded_query' = Head(Tail(preprocess_query(text)))
    /\ pc' = "stage1"
    /\ calls' = <<>>
    /\ stage1_docs' = <<>>
    /\ before' = [messages |-> messages,
                  conversation_context |-> conversation_context]
    /\ failed' = FALSE
    /\ UNCHANGED <<config, outside, conversation_context, docs_with_scores,
                   expanded_docs, relevant_docs, context,
                   conversation_history, result, sources>>

\* The except handler of the run: streamlit_app.py shows the error,
\* streamlit_app_multilingual.py also appends it as an assistant message.
Except(e) ==
    /\ messages' = IF app = "streamlit_app_multilingual"
                   THEN Append(messages,
                               AssistantMessage(ErrorPrefix \o e, <<>>))
                   ELSE messages
    /\ failed' = TRUE
    /\ pc' = "done"
    /\ UNCHANGED <<config, outside, conversation_context, before>>

\* A run that never widens.
SkipStage2(docs) == "generate"

\* Where the run goes after Stage 1 returned docs.
AfterStage1(docs) == IF Widen(docs) THEN "stage2" ELSE "generate"

\* "1. Try hybrid search first"
Stage1Hybrid(profile) ==
    /\ pc = "stage1"
    /\ calls' = Append(calls,
                       Call("hybrid_search", original_query, Stage1K, TRUE))
    /\ docs_with_scores' =
           hybrid_search(vectorstore, Distances(profile, vectorstore),
                         original_query, Stage1K)
    /\ search' = hybrid_search_frame(vectorstore,
                                      Distances(profile, vectorstore),
                                      original_query, Stage1K)
    /\ stage1_docs' = <<docs_with_scores'>>
    /\ pc' = AfterStage1(docs_with_scores')
    /\ UNCHANGED <<config, expansion, server, session, query_text,
                   original_query, expanded_query, expanded_docs,
                   relevant_docs, context, conversation_history, result,
                   sources, before, failed>>

\* A run in which a failure of the Stage 1 hybrid search goes straight to
\* the except handler.
Stage1HybridSurfaces ==
    /\ pc = "stage1"
    /\ calls' = Append(calls,
                       Call("hybrid_search", original_query, Stage1K, FALSE))
    /\ Except(ErrorText)
    /\ UNCHANGED <<locals, stage1_docs>>

Stage1HybridRaises ==
    /\ pc = "stage1"
    /\ calls' = Append(calls,
                       Call("hybrid_search", original_query, Stage1K, FALSE))
    /\ pc' = "stage1_fallback"
    /\ UNCHANGED <<config, outside, session, locals, stage1_docs, before,
                   failed>>

\* "Fallback to regular semantic search if hybrid search fails"
Stage1Fallback(profile) ==
    /\ pc = "stage1_fallback"
    /\ calls' = Append(calls, Call("similarity_search_with_score",
                                   original_query, Stage1K, TRUE))
    /\ docs_with_scores' =
           similarity_search_with_score(
               vectorstore, Distances(profile, vectorstore), Stage1K)
    /\ stage1_docs' = <<docs_with_scores'>>
    /\ pc' = AfterStage1(docs_with_scores')
    /\ UNCHANGED <<config, outside, session, query_text, original_query,
                   expanded_query, expanded_docs, relevant_docs, context,
                   conversation_history, result, sources, before, failed>>

Stage1FallbackRaises ==
    /\ pc = "stage1_fallback"
    /\ calls' = Append(calls, Call("similarity_search_with_score",
                                   original_query, Stage1K, FALSE))
    /\ Except(ErrorText)
    /\ UNCHANGED <<locals, stage1_docs>>

\* "2. If scores are too high (not similar enough), try with expanded query"
Stage2Hybrid(profile) ==
    /\ pc = "stage2"
    /\ calls' = Append(calls,
                       Call("hybrid_search", expanded_query, Stage2K, TRUE))
    /\ expanded_docs' =
           hybrid_search(vectorstore, Distances(profile, vectorstore),
                         expanded_query, Stage2K)
    /\ search' = hybrid_search_frame(vectorstore,
                                      Distances(profile, vectorstore),
                                      expanded_query, Stage2K)
    /\ docs_with_scores' = Combine(docs_with_scores, expanded_docs')
    /\ pc' = "generate"
    /\ UNCHANGED <<config, expansion, server, session, query_text,
                   original_query, expanded_query, relevant_docs, context,
                   conversation_history, result, sources, stage1_docs,
                   before, failed>>

Stage2HybridRaises ==
    /\ pc = "stage2"
    /\ calls' = Append(calls,
                       Call("hybrid_search", expanded_query, Stage2K, FALSE))
    /\ pc' = "stage2_fallback"
    /\ UNCHANGED <<config, outside, session, locals, stage1_docs, before,
                   failed>>

Stage2Fallback(profile) ==
    /\ pc = "stage2_fallback"
    /\ calls' = Append(calls, Call("similarity_search_with_score",
                                   expanded_query, Stage2K, TRUE))
    /\ expanded_docs' =
           similarity_search_with_score(
               vectorstore, Distances(profile, vectorstore), Stage2K)
    /\ docs_with_scores' = Combine(docs_with_scores, expanded_docs')
    /\ pc' = "generate"
    /\ UNCHANGED <<config, outside, session, query_text, original_query,
                   expanded_query, relevant_docs, context,
                   conversation_history, result, sources, stage1_docs,
                   before, failed>>

Stage2FallbackRaises ==
    /\ pc = "stage2_fallback"
    /\ calls' = Append(calls, Call("similarity_search_with_score",
                                   expanded_query, Stage2K, FALSE))
    /\ Except(ErrorText)
    /\ UNCHANGED <<locals, stage1_docs>>

\* Steps 3 to 5: the threshold filter, the context and the history, all
\* computed before the generation call, which returns or raises.
Prepare(ok) ==
    /\ relevant_docs' = RelevantDocs(docs_with_scores)
    /\ context' = Context(relevant_docs')
    /\ conversation_history' = ConversationHistory(messages)
    /\ calls' = Append(calls, Call("chain.run", original_query, 0, ok))

\* "6. Generate response", then the sources, the assistant message and,
\* in streamlit_app.py, the conversation context.
Generate(answer) ==
    /\ pc = "generate"
    /\ Prepare(TRUE)
    /\ result' = answer
    /\ sources' = Sources(app, relevant_docs')
    /\ messages' = Append(messages, AssistantMessage(answer, sources'))
    /\ conversation_context' =
           IF app = "streamlit_app"
           THEN UpdatedContext(conversation_context,
                               NewContext(query_text, answer))
           ELSE conversation_context
    /\ pc' = "done"
    /\ UNCHANGED <<config, outside, query_text, original_query,
                   expanded_query, docs_with_scores, expanded_docs,
                   stage1_docs, before, failed>>

\* A failed generation call that is made again instead of being handled.
GenerateRetries ==
    /\ pc = "generate"
    /\ Prepare(FALSE)
    /\ UNCHANGED <<config, outside, session, pc, query_text, original_query,
                   expanded_query, docs_with_scores, expanded_docs, result,
                   sources, stage1_docs, before, failed>>

\* chain.run raises: the except handler ends the run.
GenerateRaises ==
    /\ pc = "generate"
    /\ Prepare(FALSE)
    /\ Except(ErrorText)
    /\ UNCHANGED <<query_text, original_query, expanded_query,
                   docs_with_scores, expanded_docs, result, sources,
                   stage1_docs>>

\* The script run ends: its locals are gone, the session state stays.
EndRun ==
    /\ pc = "done"
    /\ pc' = "idle"
    /\ query_text' = <<>>
    /\ original_query' = <<>>
    /\ expanded_query' = <<>>
    /\ docs_with_scores' = <<>>
    /\ expanded_docs' = <<>>
    /\ relevant_docs' = <<>>
    /\ context' = <<>>
    /\ conversation_history' = <<>>
    /\ result' = <<>>
    /\ sources' = <<>>
    /\ stage1_docs' = <<>>
    /\ calls' = <<>>
    /\ search' = None
    /\ UNCHANGED <<config, expansion, server, session, before, failed>>

\* A button that empties the messages and keeps the conversation context.
ClearMessagesOnly ==
    /\ pc = "idle"
    /\ messages' = <<>>
    /\ UNCHANGED <<config, outside, pc, conversation_context, locals,
                   stage1_docs, calls, before, failed>>

\* The Clear Chat button.
ClearChat ==
    /\ pc = "idle"
    /\ messages' = <<>>
    /\ conversation_context' = <<>>
    /\ UNCHANGED <<config, outside, pc, locals, stage1_docs, calls, before,
                   failed>>

\* A submission of the conversations explored.
SubmitExplored(input) ==
    /\ Explored(vectorstore, messages, input)
    /\ Submit(input[1], input[2])

Next ==
    \/ \E input \in InputPool : SubmitExplored(input)
    \/ \E profile \in DistanceProfiles : Stage1Hybrid(profile)
    \/ Stage1HybridRaises
    \/ \E profile \in DistanceProfiles : Stage1Fallback(profile)
    \/ Stage1FallbackRaises
    \/ \E profile \in DistanceProfiles : Stage2Hybrid(profile)
    \/ Stage2HybridRaises
    \/ \E profile \in DistanceProfiles : Stage2Fallback(profile)
    \/ Stage2FallbackRaises
    \/ Generate(ResultText)
    \/ GenerateRaises
    \/ EndRun
    \/ ClearChat

Spec == Init /\ [][Next]_vars

(***************************************************************************)
(* hybrid_search called directly                                           *)
(***************************************************************************)

\* 'mechanics ' ten times: one hundred characters, the fingerprint length.
Mechanics == <<"m", "e", "c", "h", "a", "n", "i", "c", "s", " ">>

LongPrefix == Concat([i \in 1..10 |-> Mechanics])

\* 'energy law'
TextEnergyLaw == <<"e", "n", "e", "r", "g", "y", " ", "l", "a", "w">>

\* 'Energy'
TextCapital == <<"E", "n", "e", "r", "g", "y">>

\* Two chunks that differ only after their first hundred characters.
TextLongEnergy == LongPrefix \o <<"e", "n", "e", "r", "g", "y">>
TextLongLaw    == LongPrefix \o <<"l", "a", "w">>

SearchContents == {TextEnergyLaw, TextCapital, TextLongEnergy, TextLongLaw}

\* 'Energy law'
QueryEnergyLaw == <<"E", "n", "e", "r", "g", "y", " ", "l", "a", "w">>

\* 'energy'
QueryLower == <<"e", "n", "e", "r", "g", "y">>

SearchQueries == {QueryEnergyLaw, QueryLower, QueryConservation, <<>>}

\* The embedding distances a chunk may be at.
ScorePool == {<<1, 4>>, <<1, 2>>, <<3, 2>>}

MaxChunks == 2
MaxK == 3

SearchStores ==
    {[documents |-> d, metadatas |-> [i \in DOMAIN d |-> [source |-> PathNotes]]] :
        d \in UNION {[1..n -> SearchContents] : n \in 0..MaxChunks}}

InitSearch ==
    /\ app = "backend_multimodal"
    /\ vectorstore \in SearchStores
    /\ chain = LoadedChain
    /\ messages = <<>>
    /\ conversation_context = <<>>
    /\ pc = "idle"
    /\ NoLocals
    /\ NoRun
    /\ NoOutside

\* One call of hybrid_search(vectorstore, query, k), with the locals it
\* builds on the way: the frame records the arguments, the distances the
\* embedding gave, the two lists searched and the value returned.
DirectSearch(query, dist, k) ==
    /\ pc = "idle"
    /\ search' = hybrid_search_frame(vectorstore, dist, query, k)
    /\ pc' = "returned"
    /\ UNCHANGED <<config, chat, calls, expansion, server>>

\* The caller drops the frame.
Return ==
    /\ pc = "returned"
    /\ pc' = "idle"
    /\ search' = None
    /\ UNCHANGED <<config, chat, calls, expansion, server>>

NextSearch ==
    \/ \E query \in SearchQueries, k \in 0..MaxK :
           \E dist \in [1..Len(vectorstore.documents) -> ScorePool] :
               DirectSearch(query, dist, k)
    \/ Return

SpecSearch == InitSearch /\ [][NextSearch]_vars

(***************************************************************************)
(* The conversation context over long exchanges                            *)
(***************************************************************************)

\* 'Thanks'
TextThanks == <<"T", "h", "a", "n", "k", "s">>

\* Prompts of n letters.  With the 20 characters of ResultText, a first
\* exchange of a prompt of n letters leaves a context of n + 42 characters:
\* 1958 letters give exactly 2000, 1959 give 2001.
LongPrompt(n) == Rep("x", n)

PromptLengths == {978, 1958, 1959, 2058}

ContextPrompts == {TextThanks} \cup {LongPrompt(n) : n \in PromptLengths}

MaxExchanges == 3

InitContext ==
    /\ app = "streamlit_app"
    /\ vectorstore = EmptyStore
    /\ chain = LoadedChain
    /\ messages = <<>>
    /\ conversation_context = <<>>
    /\ pc = "idle"
    /\ NoLocals
    /\ NoRun
    /\ NoOutside

\* What a run of streamlit_app.py in which no call raises does to the
\* session memory, taken in one step: the user message is appended when
\* the run starts, the assistant message and the context update follow the
\* generation call.  Over the empty index nothing is retrieved, so the
\* assistant message has no sources.
Exchange(prompt, answer) ==
    /\ pc = "idle"
    /\ 2 * MaxExchanges > Len(messages)
    /\ query_text' = prompt
    /\ result' = answer
    /\ messages' = messages \o <<UserMessage(prompt, FALSE),
                                 AssistantMessage(answer, <<>>)>>
    /\ conversation_context' =
           UpdatedContext(conversation_context, NewContext(prompt, answer))
    /\ before' = [messages |-> messages,
                  conversation_context |-> conversation_context]
    /\ failed' = FALSE
    /\ pc' = "done"
    /\ UNCHANGED <<config, outside, original_query, expanded_query,
                   docs_with_scores, expanded_docs, relevant_docs, context,
                   conversation_history, sources, stage1_docs, calls>>

NextContext ==
    \/ \E prompt \in ContextPrompts : Exchange(prompt, ResultText)
    \/ EndRun
    \/ ClearChat

SpecContext == InitContext /\ [][NextContext]_vars

(***************************************************************************)
(* The HTTP service of app.py                                              *)
(***************************************************************************)

\* 'light'
QueryLight == <<"l", "i", "g", "h", "t">>

\* 'I cannot find the answer in the provided text.'
CannotFindText ==
    <<"I", " ", "c", "a", "n", "n", "o", "t", " ", "f", "i", "n", "d", " ",
    "t", "h", "e", " ", "a", "n", "s", "w", "e", "r", " ", "i", "n", " ",
    "t", "h", "e", " ", "p", "r", "o", "v", "i", "d", "e", "d", " ", "t",
    "e", "x", "t", ".">>

\* The body of a POST /ask: whether its content type is JSON, and what
\* get_json makes of it.  A body of JSON content type that does not parse
\* is "malformed"; one that parses is an object with its fields, or
\* another JSON value (an array, a string, a number, null).
Body(is_json, data) == [is_json |-> is_json, data |-> data]

JsonObject(fields) == [kind |-> "object", fields |-> fields]

RequestPool ==
    {Body(FALSE, [kind |-> "text"]),
     Body(TRUE, [kind |-> "malformed"]),
     Body(TRUE, [kind |-> "array"]),
     Body(TRUE, [kind |-> "null"]),
     Body(TRUE, JsonObject([question |-> QueryEnergy])),
     Body(TRUE, JsonObject([query |-> <<>>])),
     Body(TRUE, JsonObject([query |-> QueryEnergy])),
     Body(TRUE, JsonObject([query |-> QueryConservation, lang |-> "en"])),
     Body(TRUE, JsonObject([query |-> QueryLight])),
     Body(TRUE, JsonObject([query |-> QueryEnergyLaw])),
     Body(TRUE, JsonObject([query |-> QueryLower]))}

AnswerPool == {ResultText, CannotFindText, TextThanks}

\* Two chunks of the same page of the same file.
PairStore ==
    [documents |-> <<TextLight, TextWaves>>,
     metadatas |-> <<[source |-> PathOptics, page |-> 10],
                     [source |-> PathOptics, page |-> 10]>>]

AskStores == {SmallStore, PairStore, BigStore}

\* "docs = vectorstore.similarity_search(query, k=3)"
AskK == 3

\* jsonify(body), status
Json(status, body) == [status |-> status, body |-> body]

\* vectorstore.similarity_search(query, k): the documents without scores.
similarity_search(store, dist, k) ==
    LET scored == similarity_search_with_score(store, dist, k)
    IN  [i \in 1..Len(scored) |-> scored[i][1]]

\* "4. Extract sources" of app.py
AskSources(docs) == SourcesOf(TRUE, docs)

\* A handler that tests the backend before it looks at the body.
ask_backend_first(store, llm_chain, body, dist, searched, generated, answer) ==
    IF store = None \/ llm_chain = None
    THEN [response |-> Json(500, [error |-> "Backend models not initialized."]),
          calls |-> <<>>]
    ELSE [response |-> Json(400, [error |-> "Request must be JSON"]),
          calls |-> <<>>]

\* What ask_question returns for a body, and the calls it makes on the
\* way.  searched and generated tell whether the search and the generation
\* return (TRUE) or raise (FALSE); answer is what the generation returns.
ask_question(store, llm_chain, body, dist, searched, generated, answer) ==
    IF ~body.is_json
    THEN [response |-> Json(400, [error |-> "Request must be JSON"]),
          calls |-> <<>>]
    ELSE IF body.data.kind = "malformed"
    THEN \* request.get_json() raises BadRequest
         [response |-> Json(400, [error |-> "Bad Request"]), calls |-> <<>>]
    ELSE IF body.data.kind # "object"
    THEN \* data.get raises AttributeError outside the try block
         [response |-> Json(500, [error |-> "Internal Server Error"]),
          calls |-> <<>>]
    ELSE IF \/ "query" \notin DOMAIN body.data.fields
            \/ body.data.fields.query = <<>>
    THEN [response |->
              Json(400, [error |-> "Missing 'query' in request body"]),
          calls |-> <<>>]
    ELSE IF store = None \/ llm_chain = None
    THEN [response |-> Json(500, [error |-> "Backend models not initialized."]),
          calls |-> <<>>]
    ELSE LET query  == body.data.fields.query
             failure == Json(500, [error |-> "An internal error occurred."])
             docs   == similarity_search(store, dist, AskK)
         IN  IF ~searched
             THEN [response |-> failure,
                   calls |-> <<Call("similarity_search", query, AskK, FALSE)>>]
             ELSE IF ~generated
             THEN [response |-> failure,
                   calls |-> <<Call("similarity_search", query, AskK, TRUE),
                               Call("chain.run", query, 0, FALSE)>>]
             ELSE [response |-> Json(200, [answer |-> answer,
                                           sources |-> AskSources(docs)]),
                   calls |-> <<Call("similarity_search", query, AskK, TRUE),
                               Call("chain.run", query, 0, TRUE)>>]

InitAsk ==
    /\ app = "app"
    /\ vectorstore = None
    /\ chain = None
    /\ messages = <<>>
    /\ conversation_context = <<>>
    /\ pc = "starting"
    /\ NoLocals
    /\ NoRun
    /\ NoOutside

\* The module-level try block of app.py runs through: the index and the
\* chain are loaded.
StartupLoads(store) ==
    /\ pc = "starting"
    /\ vectorstore' = store
    /\ chain' = LoadedChain
    /\ init_runs' = init_runs + 1
    /\ pc' = "serving"
    /\ UNCHANGED <<app, chat, calls, search, expansion, request, response>>

\* A statement of the try block raises: "vectorstore, chain = None, None".
StartupFails ==
    /\ pc = "starting"
    /\ vectorstore' = None
    /\ chain' = None
    /\ init_runs' = init_runs + 1
    /\ pc' = "serving"
    /\ UNCHANGED <<app, chat, calls, search, expansion, request, response>>

\* One POST /ask, from the request to the response.
AskQuestion(body, profile, searched, generated, answer) ==
    /\ pc = "serving"
    /\ request' = body
    /\ LET out == ask_question(vectorstore, chain, body,
                               Distances(profile, vectorstore),
                               searched, generated, answer)
       IN  /\ response' = out.response
           /\ calls' = out.calls
    /\ UNCHANGED <<config, chat, pc, search, expansion, init_runs>>

NextAsk ==
    \/ \E store \in AskStores : StartupLoads(store)
    \/ StartupFails
    \/ \E body \in RequestPool, profile \in DistanceProfiles,
          searched \in BOOLEAN, generated \in BOOLEAN, answer \in AnswerPool :
           AskQuestion(body, profile, searched, generated, answer)

SpecAsk == InitAsk /\ [][NextAsk]_vars

(***************************************************************************)
(* Properties                                                              *)
(***************************************************************************)

Min(a, b) == IF a <= b THEN a ELSE b

\* The retrieval calls of the log.
IsRetrieval(c) == c.fn \in {"hybrid_search", "similarity_search_with_score"}

\* Whether the generation call of the run has been made.
GenerationCalled == \E i \in 1..Len(calls) : calls[i].fn = "chain.run"

\* C1: for any query, any corpus and any k, hybrid_search returns at most
\* k candidates, no two of which share the first 100 characters of their
\* content, and the returned scores are in non-decreasing order.
C1_HybridSearchResult ==
    search # None =>
        LET r == search.result
        IN  /\ Len(r) <= search.k
            /\ \A i, j \in 1..Len(r) :
                   i < j => Take(r[i][1].page_content, 100)
                            # Take(r[j][1].page_content, 100)
            /\ \A i \in 1..(Len(r) - 1) : ScoreLE(r[i][2], r[i + 1][2])

\* A call with k = 2 that returns two results of different scores out of
\* more than two found, two of which share a fingerprint.
C1_Witness ==
    /\ search # None
    /\ search.k = 2
    /\ Len(search.result) = 2
    /\ ScoreLT(search.result[1][2], search.result[2][2])
    /\ LET all == search.semantic_docs \o search.keyword_matches
       IN  /\ Len(all) > 2
           /\ \E i, j \in 1..Len(all) :
                  /\ i < j
                  /\ Take(all[i][1].page_content, 100)
                     = Take(all[j][1].page_content, 100)

\* C2: if the Stage 1 result is empty or its best score is at most 1.0,
\* Stage 2 is never invoked: every retrieval call of the run is a Stage 1
\* call, made with the original query and k = 5, and none is made with
\* k = 3 for the expanded query.
C2_NoWideningCall ==
    (/\ stage1_docs # <<>>
     /\ \/ stage1_docs[1] = <<>>
        \/ ScoreLE(stage1_docs[1][1][2], <<1, 1>>))
    => /\ pc \notin {"stage2", "stage2_fallback"}
       /\ \A i \in 1..Len(calls) :
              IsRetrieval(calls[i]) =>
                  /\ calls[i].query = original_query
                  /\ calls[i].k = 5
       /\ expanded_docs = <<>>

\* A run that generated its answer after a Stage 1 whose best score is
\* exactly 1.0.
C2_Witness ==
    /\ pc = "done"
    /\ ~failed
    /\ stage1_docs # <<>>
    /\ stage1_docs[1] # <<>>
    /\ ScoreEQ(stage1_docs[1][1][2], <<1, 1>>)
    /\ GenerationCalled

\* C3: if the Stage 1 result is non-empty and its best score is above 1.0,
\* Stage 2 is invoked exactly once with the expanded query and k = 3: once
\* the run is past the Stage 2 hybrid search, the log holds exactly one
\* hybrid_search call after Stage 1, and it has these arguments.
C3_WideningCall ==
    (/\ stage1_docs # <<>>
     /\ stage1_docs[1] # <<>>
     /\ ScoreLT(<<1, 1>>, stage1_docs[1][1][2]))
    => /\ pc \in {"stage2", "stage2_fallback", "generate", "done"}
       /\ pc # "stage2" =>
              LET stage2 == {i \in 1..Len(calls) :
                                /\ calls[i].fn = "hybrid_search"
                                /\ calls[i].query = expanded_query
                                /\ calls[i].k = 3}
                  others == {i \in 1..Len(calls) :
                                /\ calls[i].fn = "hybrid_search"
                                /\ i \notin stage2}
              IN  /\ Cardinality(stage2) = 1
                  /\ \A i \in others : /\ calls[i].query = original_query
                                       /\ calls[i].k = 5
                                       /\ \A j \in stage2 : i < j
                  /\ Cardinality(others) <= 1

\* A run that generated its answer after a Stage 2 that returned documents
\* for a query the preprocessing really expanded.
C3_Witness ==
    /\ pc = "done"
    /\ ~failed
    /\ stage1_docs # <<>>
    /\ stage1_docs[1] # <<>>
    /\ ScoreLT(<<1, 1>>, stage1_docs[1][1][2])
    /\ Len(expanded_query) > Len(original_query)
    /\ expanded_docs # <<>>
    /\ \E i \in 1..Len(calls) :
           calls[i] = [fn |-> "hybrid_search", query |-> expanded_query,
                       k |-> 3, ok |-> TRUE]

\* C4: once the run has filtered its ranked (possibly merged) list, the
\* relevant set is either non-empty and exactly the candidates of the list
\* whose score is below 1.2, in the order of the list, or, when no
\* candidate has a score below 1.2, exactly the first 3 entries of the list.
C4_RelevantSet ==
    (pc = "done" /\ GenerationCalled) =>
        LET ranked == docs_with_scores
            below  == {i \in 1..Len(ranked) : ScoreLT(ranked[i][2], <<6, 5>>)}
            Rank(i) == Cardinality({j \in below : j <= i})
        IN  IF below # {}
            THEN /\ relevant_docs # <<>>
                 /\ Len(relevant_docs) = Cardinality(below)
                 /\ \A i \in below : relevant_docs[Rank(i)] = ranked[i][1]
            ELSE /\ Len(relevant_docs) = Min(3, Len(ranked))
                 /\ \A i \in 1..Len(relevant_docs) :
                        relevant_docs[i] = ranked[i][1]

\* A run whose ranked list has more than three candidates, none below the
\* threshold, and whose relevant set is the first three.
C4_Witness ==
    /\ pc = "done"
    /\ GenerationCalled
    /\ Len(docs_with_scores) > 3
    /\ \A i \in 1..Len(docs_with_scores) :
           ScoreLE(<<6, 5>>, docs_with_scores[i][2])
    /\ Len(relevant_docs) = 3

\* C5: the conversation memory is mutated only after a successful
\* generation call: when retrieval or generation raised in a run, the
\* messages list and the conversation context are what they were when the
\* run began.
C5_MemoryUntouchedOnFailure ==
    (pc = "done" /\ failed) =>
        /\ messages = before.messages
        /\ conversation_context = before.conversation_context

\* Whether a body passes the validation of ask_question: a JSON object
\* with a non-empty query.
ValidBody(body) ==
    /\ body.is_json
    /\ body.data.kind = "object"
    /\ "query" \in DOMAIN body.data.fields
    /\ body.data.fields.query # <<>>

Unavailable == [status |-> 500,
                body |-> [error |-> "Backend models not initialized."]]

C7_BadRequest ==
    (/\ request # None
     /\ \/ ~request.is_json
        \/ request.data.kind \in {"malformed", "array", "null"}
        \/ /\ request.data.kind = "object"
           /\ "query" \notin DOMAIN request.data.fields)
    => /\ response.status = 400
       /\ calls = <<>>

\* C8: when a hybrid_search call fails, the run recovers by calling the
\* plain scored search of the vector store once, with the query and the k
\* of the failed call; the failure reaches the except handler of the run
\* only if that fallback call fails too.
C8_FallbackOnce ==
    /\ \A i \in 1..Len(calls) :
           (calls[i].fn = "hybrid_search" /\ ~calls[i].ok) =>
               IF i = Len(calls)
               THEN pc \in {"stage1_fallback", "stage2_fallback"} /\ ~failed
               ELSE /\ calls[i + 1].fn = "similarity_search_with_score"
                    /\ calls[i + 1].query = calls[i].query
                    /\ calls[i + 1].k = calls[i].k
                    /\ i + 1 < Len(calls) =>
                           calls[i + 2].fn # "similarity_search_with_score"
    /\ \A i \in 1..Len(calls) :
           calls[i].fn = "similarity_search_with_score" =>
               /\ i > 1
               /\ calls[i - 1].fn = "hybrid_search"
               /\ ~calls[i - 1].ok
    /\ (pc = "done" /\ failed) =>
           /\ calls # <<>>
           /\ ~calls[Len(calls)].ok
           /\ calls[Len(calls)].fn # "hybrid_search"

\* A run that answered although the hybrid search failed in both stages.
C8_Witness ==
    /\ pc = "done"
    /\ ~failed
    /\ Len(calls) = 5
    /\ calls[1] = [fn |-> "hybrid_search", query |-> original_query,
                   k |-> 5, ok |-> FALSE]
    /\ calls[2] = [fn |-> "similarity_search_with_score",
                   query |-> original_query, k |-> 5, ok |-> TRUE]
    /\ calls[3] = [fn |-> "hybrid_search", query |-> expanded_query,
                   k |-> 3, ok |-> FALSE]
    /\ calls[4] = [fn |-> "similarity_search_with_score",
                   query |-> expanded_query, k |-> 3, ok |-> TRUE]
    /\ docs_with_scores # <<>>

\* C9: the conversation history rendered for a run is built from the last
\* 6 turns minus the in-flight one, in order: with n turns at the time of
\* rendering it is empty for n < 2 and has min(n, 6) - 1 lines for n >= 2,
\* each 'Student: ' or 'Assistant: ' followed by the content of the turn,
\* with ' [Student also shared an image]' appended exactly when the turn
\* has an image.
C9_RenderedHistory ==
    (pc = "done" /\ GenerationCalled) =>
        LET turns == SubSeq(messages, 1, Len(before.messages) + 1)
            n     == Len(turns)
            lines == IF n < 2 THEN 0 ELSE Min(n, 6) - 1
            Line(t) ==
                (IF t.role = "user" THEN StudentPrefix
                                    ELSE AssistantRole \o ColonSpace)
                \o t.content
                \o (IF t.has_image THEN ImageMarker ELSE <<>>)
        IN  conversation_history =
                Join(Newline,
                     [i \in 1..lines |-> Line(turns[n - Min(n, 6) + i])])

\* A run that rendered its history with 7 turns in the conversation: 5
\* lines, of user turns with an image and of assistant turns.
C9_Witness ==
    /\ pc = "done"
    /\ GenerationCalled
    /\ Len(before.messages) = 6
    /\ \E i, j \in 2..6 : /\ messages[i].role = "user"
                          /\ messages[i].has_image
                          /\ messages[j].role = "assistant"
    /\ conversation_history # <<>>

\* C10: after each successful exchange with entry E = 'Student: ' + the
\* user text + '\nAssistant: ' + the assistant text, the running context
\* is old[-1000:] + '\n' + E when len(old) > 2000 and old + '\n' + E
\* otherwise.
C10_ContextUpdate ==
    (pc = "done" /\ ~failed /\ GenerationCalled) =>
        LET old  == before.conversation_context
            E    == StudentPrefix \o query_text \o AssistantInfix \o result
            kept == IF Len(old) > 2000
                    THEN SubSeq(old, Len(old) - 999, Len(old))
                    ELSE old
        IN  conversation_context = kept \o Newline \o E

\* The length of the longest entry an exchange of SpecContext records:
\* 'Student: ', the prompt, '\nAssistant: ' and the answer.
LongestEntry ==
    LET lengths == {Len(StudentPrefix) + Len(p) + Len(AssistantInfix)
                    + Len(ResultText) : p \in ContextPrompts}
    IN  CHOOSE n \in lengths : \A m \in lengths : m <= n

\* C11 as stated: in every reachable session state, after any sequence of
\* exchanges and resets, the running context is at most 2000 characters
\* long.
C11_ContextAtMost2000 == Len(conversation_context) <= 2000

\* C11, amended: the length test precedes the append, so in every
\* reachable session state the running context is at most 2001 characters
\* plus the longest entry recorded: up to 2000 characters kept, one
\* newline and the entry.
C11_ContextSoftCap == Len(conversation_context) <= 2001 + LongestEntry

\* The bound is attained: a context of exactly 2000 characters received
\* the longest entry.
C11_Witness ==
    /\ pc = "done"
    /\ Len(before.conversation_context) = 2000
    /\ Len(conversation_context) = 2001 + LongestEntry

\* The header and body of the context block of the chunk at position i,
\* with src as the source shown.
BlockOf(i, src, doc) ==
    SourceWord \o Str(i) \o OpenParen \o src \o PageWord
    \o (IF "page" \in DOMAIN doc.metadata
        THEN Str(doc.metadata.page) ELSE NoPage)
    \o CloseHeader \o doc.page_content

\* C12: the generation context is the blocks
\* 'Source {i} ({source}, Page {page}):\n{content}' of every chunk of the
\* final relevant set, numbered 1..n in order and joined by a blank line,
\* where {source} is the base name of the source path of the chunk and
\* {page} is 'N/A' when the chunk has no page; no chunk is left out.
C12_ContextBlocks ==
    (pc = "done" /\ GenerationCalled) =>
        context =
            Join(BlankLine,
                 [i \in 1..Len(relevant_docs) |->
                     BlockOf(i,
                             IF "source" \in DOMAIN relevant_docs[i].metadata
                             THEN Basename(relevant_docs[i].metadata.source)
                             ELSE UnknownSource,
                             relevant_docs[i])])

\* Whether cited lists every {source, page} pair of the chunks exactly
\* once, in the order of first appearance among the chunks.
CitesOnce(cited, chunks) ==
    LET pairs    == [i \in 1..Len(chunks) |-> SourceInfo(chunks[i])]
        First(p) == CHOOSE i \in 1..Len(pairs) :
                        /\ pairs[i] = p
                        /\ \A j \in 1..(i - 1) : pairs[j] # p
    IN  /\ \A i \in 1..Len(pairs) : \E j \in 1..Len(cited) : cited[j] = pairs[i]
        /\ \A j \in 1..Len(cited) : \E i \in 1..Len(pairs) : pairs[i] = cited[j]
        /\ \A j, l \in 1..Len(cited) :
               j < l => /\ cited[j] # cited[l]
                        /\ First(cited[j]) < First(cited[l])

\* C13: in every product variant, the citation list of a response holds
\* each {source, page} pair of the rendered chunks exactly once, in the
\* order of first appearance among the chunks.
C13_CitationsOnce ==
    (pc = "done" /\ ~failed /\ GenerationCalled) =>
        CitesOnce(sources, relevant_docs)

(***************************************************************************)
(* preprocess_query called directly                                        *)
(***************************************************************************)

\* 'chapters', 'on', 'Energy', 'Laws', 'xyz'
WordChapters == <<"c", "h", "a", "p", "t", "e", "r", "s">>
WordOn       == <<"o", "n">>
WordEnergy   == <<"E", "n", "e", "r", "g", "y">>
WordLaws     == <<"L", "a", "w", "s">>
WordXyz      == <<"x", "y", "z">>

WordPool ==
    {WordChapters, WordOn, WordEnergy, QueryConservation, WordLaws, WordXyz}

MaxWords == 3

\* 'chapters on energy conservation'
QueryChapters ==
    Join(SpaceSep, <<WordChapters, WordOn, QueryLower, Lower(QueryConservation)>>)

\* Queries of up to MaxWords words of the pool, the query of four words
\* above, a query of blanks only, and one with blanks around its words.
QueryPool ==
    {Join(SpaceSep, w) : w \in UNION {[1..n -> WordPool] : n \in 0..MaxWords}}
    \cup {QueryChapters,
          <<" ", " ", "\t">>,
          <<" ">> \o WordLaws \o <<" ", " ">> \o WordEnergy \o <<"\n">>}

InitQuery ==
    /\ app = "backend_multimodal"
    /\ vectorstore = EmptyStore
    /\ chain = LoadedChain
    /\ messages = <<>>
    /\ conversation_context = <<>>
    /\ pc = "idle"
    /\ NoLocals
    /\ NoRun
    /\ NoOutside

\* One call of preprocess_query(query), with the locals it builds: the
\* terms of the normalised query, the expanded terms, and the pair of the
\* original and the expanded query it returns.
DirectPreprocess(query) ==
    /\ pc = "idle"
    /\ expansion' =
           [query          |-> query,
            query_terms    |-> Split(Strip(Lower(query))),
            expanded_terms |-> expanded_terms(query),
            result         |-> preprocess_query(query)]
    /\ pc' = "returned"
    /\ UNCHANGED <<config, chat, calls, search, server>>

\* The caller drops the frame.
ReturnQuery ==
    /\ pc = "returned"
    /\ pc' = "idle"
    /\ expansion' = None
    /\ UNCHANGED <<config, chat, calls, search, server>>

NextQuery ==
    \/ \E query \in QueryPool : DirectPreprocess(query)
    \/ ReturnQuery

SpecQuery == InitQuery /\ [][NextQuery]_vars

(***************************************************************************)
(* Properties of preprocess_query                                          *)
(***************************************************************************)

\* a occurs in b as a run of consecutive characters.
IsPartOf(a, b) ==
    \E i \in 0..(Len(b) - Len(a)) : \A j \in 1..Len(a) : b[i + j] = a[j]

\* The keys of the table that a token matches, by position in the table.
MatchedKeys(t) ==
    {j \in 1..Len(physics_synonyms) :
        \/ IsPartOf(t, physics_synonyms[j].key)
        \/ IsPartOf(physics_synonyms[j].key, t)}

\* The synonyms of the keys a token matches, in the order of the table.
MatchedSynonyms(t) ==
    Concat([j \in 1..Len(physics_synonyms) |->
               IF j \in MatchedKeys(t) THEN physics_synonyms[j].synonyms
                                       ELSE <<>>])

\* The place of the i-th token in an expansion where every token is
\* followed by the synonyms it matched.
RECURSIVE SlotOf(_, _)
SlotOf(tokens, i) ==
    IF i = 1 THEN 1
    ELSE SlotOf(tokens, i - 1) + 1 + Len(MatchedSynonyms(tokens[i - 1]))

\* C14 as stated: the expanded query is all the original (lower-cased)
\* tokens followed by all the matched synonyms in order of occurrence, with
\* duplicate synonyms kept.
C14_TokensThenSynonyms ==
    expansion # None =>
        LET tokens == expansion.query_terms
        IN  expansion.result[2] =
                Join(SpaceSep,
                     tokens \o Concat([i \in 1..Len(tokens) |->
                                          MatchedSynonyms(tokens[i])]))

\* C14 as amended: the expanded query is the space-joined list in which
\* each original (lower-cased) token, in query order, is followed at once
\* by the synonyms it matched, before the next token; nothing else is in
\* the list and duplicate synonyms are kept.
C14_TokenThenItsSynonyms ==
    expansion # None =>
        LET tokens   == expansion.query_terms
            expanded == expansion.expanded_terms
            n        == Len(tokens)
        IN  /\ expansion.result[2] = Join(SpaceSep, expanded)
            /\ Len(expanded) = SlotOf(tokens, n + 1) - 1
            /\ \A i \in 1..n :
                   /\ expanded[SlotOf(tokens, i)] = tokens[i]
                   /\ \A p \in (SlotOf(tokens, i) + 1)..(SlotOf(tokens, i + 1) - 1) :
                          \E j \in MatchedKeys(tokens[i]) :
                              expanded[p] \in ToSet(physics_synonyms[j].synonyms)

\* A query of several tokens whose first token matched synonyms, and where
\* one synonym occurs twice in the expansion.
C14_Witness ==
    /\ expansion # None
    /\ Len(expansion.query_terms) >= 2
    /\ MatchedKeys(expansion.query_terms[1]) # {}
    /\ \E p, q \in 1..Len(expansion.expanded_terms) :
           /\ p < q
           /\ expansion.expanded_terms[p] = expansion.expanded_terms[q]
           /\ expansion.expanded_terms[p] \notin ToSet(expansion.query_terms)

\* 'topics', 'power', 'preservation'
WordTopics       == <<"t", "o", "p", "i", "c", "s">>
WordPower        == <<"p", "o", "w", "e", "r">>
WordPreservation ==
    <<"p", "r", "e", "s", "e", "r", "v", "a", "t", "i", "o", "n">>

\* C15: for every token t of the query and every key K of the table, the
\* synonyms of K are added exactly when t is part of K or K is part of t,
\* and t itself is always in the expansion; a query that is empty or all
\* blanks gives an empty expansion; the expansion of 'chapters on energy
\* conservation' holds 'topics', 'power' and 'preservation' besides its
\* four tokens.
C15_SubstringMatch ==
    expansion # None =>
        LET tokens   == expansion.query_terms
            expanded == expansion.expanded_terms
        IN  /\ expanded = Concat([i \in 1..Len(tokens) |->
                                     <<tokens[i]>> \o MatchedSynonyms(tokens[i])])
            /\ \A i \in 1..Len(tokens) : tokens[i] \in ToSet(expanded)
            /\ (\A i \in 1..Len(expansion.query) :
                    expansion.query[i] \in Whitespace)
                   => /\ expanded = <<>>
                      /\ expansion.result[2] = <<>>
            /\ expansion.query = QueryChapters
                   => /\ Len(tokens) = 4
                      /\ ToSet(tokens) \cup {WordTopics, WordPower, WordPreservation}
                             \subseteq ToSet(expanded)

\* A query has been expanded where one token is a proper part of a key it
\* matched ('on' of 'conservation') and another has a key as a proper part
\* ('laws' has 'law'), and the synonyms of both keys were added.
C15_Witness ==
    /\ expansion # None
    /\ \E i \in 1..Len(expansion.query_terms) :
           \E j \in MatchedKeys(expansion.query_terms[i]) :
               /\ Len(expansion.query_terms[i]) < Len(physics_synonyms[j].key)
               /\ physics_synonyms[j].synonyms[1] \in ToSet(expansion.expanded_terms)
    /\ \E i \in 1..Len(expansion.query_terms) :
           \E j \in MatchedKeys(expansion.query_terms[i]) :
               /\ Len(physics_synonyms[j].key) < Len(expansion.query_terms[i])
               /\ physics_synonyms[j].synonyms[1] \in ToSet(expansion.expanded_terms)

(***************************************************************************)
(* Properties of the Clear Chat button                                     *)
(***************************************************************************)

\* C16: Clear Chat, from any state where the script waits for input (the
\* only step that leaves it waiting), sets the messages to the empty list
\* and the conversation context to the empty string, so that the session
\* is as after construction, with no locals of a run and the loaded
\* resources kept; and a request made on an empty session renders an empty
\* conversation history.
C16_ClearChat ==
    /\ [][(pc = "idle" /\ pc' = "idle")
            => /\ messages' = <<>>
               /\ conversation_context' = <<>>
               /\ NoLocals'
               /\ calls' = <<>>
               /\ UNCHANGED config]_vars
    /\ []((pc \in {"generate", "done"} /\ before.messages = <<>>)
            => conversation_history = <<>>)

\* The session has been cleared: it is empty and waiting, while the run
\* before started from messages and a conversation context that were not.
C16_Witness ==
    /\ pc = "idle"
    /\ messages = <<>>
    /\ conversation_context = <<>>
    /\ before.messages # <<>>
    /\ before.conversation_context # <<>>

(***************************************************************************)
(* Properties of score fusion                                              *)
(***************************************************************************)

\* The first 100 characters of the content of a scored chunk.
FingerprintOf(item) == Take(item[1].page_content, 100)

\* The positions of a list that hold the first occurrence of a fingerprint.
FirstOccurrences(all) ==
    {i \in 1..Len(all) :
        \A j \in 1..(i - 1) : FingerprintOf(all[j]) # FingerprintOf(all[i])}

\* The place of the first occurrence at i once the first occurrences are
\* in ascending order of score, equal scores in the order of the list.
RankOf(all, i) ==
    1 + Cardinality({j \in FirstOccurrences(all) :
                        \/ ScoreLT(all[j][2], all[i][2])
                        \/ ScoreEQ(all[j][2], all[i][2]) /\ j < i})

\* r is the list all with the first occurrence of each fingerprint kept,
\* sorted by ascending score, and cut to its first k entries.
IsFusionOf(r, all, k) ==
    /\ Len(r) = Min(k, Cardinality(FirstOccurrences(all)))
    /\ \A i \in FirstOccurrences(all) :
           RankOf(all, i) <= k => r[RankOf(all, i)] = all[i]

\* C17: the result of hybrid_search is the semantic results followed by
\* the lexical results, with the first occurrence of each fingerprint kept,
\* sorted by ascending score, and cut to k; so a chunk found by both carries
\* its semantic distance, even when its lexical score is lower.
C17_SemanticThenLexical ==
    search # None =>
        /\ IsFusionOf(search.result,
                      search.semantic_docs \o search.keyword_matches,
                      search.k)
        /\ \A p \in 1..Len(search.result) :
               \A i \in 1..Len(search.semantic_docs) :
                   (/\ FingerprintOf(search.semantic_docs[i])
                       = FingerprintOf(search.result[p])
                    /\ \A j \in 1..(i - 1) :
                           FingerprintOf(search.semantic_docs[j])
                               # FingerprintOf(search.result[p]))
                       => search.result[p] = search.semantic_docs[i]

\* A chunk found by both searches, with a lexical score below its semantic
\* distance, is returned with the semantic distance.
C17_Witness ==
    /\ search # None
    /\ \E p \in 1..Len(search.result) :
           \E i \in 1..Len(search.semantic_docs) :
               \E j \in 1..Len(search.keyword_matches) :
                   /\ FingerprintOf(search.semantic_docs[i])
                      = FingerprintOf(search.keyword_matches[j])
                   /\ ScoreLT(search.keyword_matches[j][2],
                              search.semantic_docs[i][2])
                   /\ search.result[p] = search.semantic_docs[i]
                   /\ search.result[p][2] # search.keyword_matches[j][2]

\* Whether a Stage 2 retrieval call of the run has returned.
Stage2Returned ==
    \E i \in 1..Len(calls) :
        IsRetrieval(calls[i]) /\ calls[i].k = Stage2K /\ calls[i].ok

\* C18: when Stage 2 ran, the ranked list is the Stage 1 list followed by
\* the Stage 2 list, with the first entry of each fingerprint kept, sorted
\* by ascending score and cut to five: it has at most five entries, of
\* distinct fingerprints, in non-decreasing order of score.
C18_CombinedList ==
    (Stage2Returned /\ pc \in {"generate", "done"}) =>
        /\ IsFusionOf(docs_with_scores, stage1_docs[1] \o expanded_docs, 5)
        /\ Len(docs_with_scores) <= 5
        /\ \A i, j \in 1..Len(docs_with_scores) :
               i < j => FingerprintOf(docs_with_scores[i])
                        # FingerprintOf(docs_with_scores[j])
        /\ \A i \in 1..(Len(docs_with_scores) - 1) :
               ScoreLE(docs_with_scores[i][2], docs_with_scores[i + 1][2])

\* Stage 2 ran and found a chunk of Stage 1 again with a lower score; the
\* ranked list keeps the chunk with its Stage 1 score, and has been cut to
\* five entries out of more.
C18_Witness ==
    /\ Stage2Returned
    /\ pc = "generate"
    /\ Cardinality(FirstOccurrences(stage1_docs[1] \o expanded_docs)) > 5
    /\ Len(docs_with_scores) = 5
    /\ \E p \in 1..5 :
           \E j \in 1..Len(expanded_docs) :
               /\ FingerprintOf(expanded_docs[j])
                  = FingerprintOf(docs_with_scores[p])
               /\ ScoreLT(expanded_docs[j][2], docs_with_scores[p][2])

(***************************************************************************)
(* Properties of the order of the calls of a run                           *)
(***************************************************************************)

\* The retrieval calls of Stage 1 and of Stage 2 in the call log.
IsStage1(c) == IsRetrieval(c) /\ c.k = Stage1K
IsStage2(c) == IsRetrieval(c) /\ c.k = Stage2K

\* C19: the steps of one run are strictly ordered and never retried: every
\* Stage 1 call comes before every Stage 2 call, every retrieval call
\* before the generation call; each stage makes at most one hybrid call
\* and at most one plain fallback call, the fallback only right after its
\* failed hybrid call; Stage 2 starts only after a Stage 1 call returned;
\* and the generation call is made at most once, as the last call.
C19_OrderedOnce ==
    /\ \A i, j \in 1..Len(calls) :
           i < j => /\ IsStage1(calls[j]) => IsStage1(calls[i])
                    /\ IsStage2(calls[j]) => IsRetrieval(calls[i])
                    /\ calls[i].fn # "chain.run"
                    /\ ~(/\ calls[i].fn = calls[j].fn
                         /\ calls[i].k = calls[j].k)
    /\ \A i \in 1..Len(calls) :
           /\ IsRetrieval(calls[i]) \/ calls[i].fn = "chain.run"
           /\ IsRetrieval(calls[i]) => IsStage1(calls[i]) \/ IsStage2(calls[i])
           /\ calls[i].fn = "similarity_search_with_score"
                  => /\ i > 1
                     /\ calls[i - 1].fn = "hybrid_search"
                     /\ calls[i - 1].k = calls[i].k
                     /\ ~calls[i - 1].ok
           /\ (IsStage2(calls[i]) /\ calls[i].fn = "hybrid_search")
                  => /\ i > 1
                     /\ IsStage1(calls[i - 1])
                     /\ calls[i - 1].ok
           /\ calls[i].fn = "chain.run"
                  => i > 1 /\ IsRetrieval(calls[i - 1]) /\ calls[i - 1].ok
    /\ (pc \in {"stage2", "stage2_fallback"}) => ~GenerationCalled
    /\ pc = "generate" => calls # <<>> /\ ~GenerationCalled

\* A run that made all five calls: both stages fell back to the plain
\* search, and the generation call, made last, failed and ended the run.
C19_Witness ==
    /\ pc = "done"
    /\ failed
    /\ Len(calls) = 5
    /\ IsStage1(calls[1]) /\ IsStage1(calls[2])
    /\ IsStage2(calls[3]) /\ IsStage2(calls[4])
    /\ calls[5].fn = "chain.run"
    /\ ~calls[5].ok

(***************************************************************************)
(* Properties of the length of the conversation context                    *)
(***************************************************************************)

\* The entry the last exchange recorded.
RecordedEntry == NewContext(query_text, result)

\* C20 as stated: after an exchange is recorded with new entry E, from any
\* reachable prior state, the running context is at most 2000 + len(E)
\* characters long.
C20_AtMostLimitPlusEntry ==
    pc = "done" => Len(conversation_context) <= 2000 + Len(RecordedEntry)

\* C20 as amended: after an exchange is recorded with new entry E, from
\* any reachable prior state, the running context is at most
\* 2001 + len(E) characters long: up to 2000 characters of the old context,
\* the newline that separates the entries, and E.
C20_AtMostLimitPlusSeparatorPlusEntry ==
    pc = "done" => Len(conversation_context) <= 2001 + Len(RecordedEntry)

\* An entry recorded on a context of exactly 2000 characters, which is kept
\* whole: the new context is 2001 characters longer than the entry.
C20_Witness ==
    /\ pc = "done"
    /\ Len(before.conversation_context) = ContextLimit
    /\ conversation_context
       = before.conversation_context \o Newline \o RecordedEntry
    /\ Len(conversation_context) = 2001 + Len(RecordedEntry)

(***************************************************************************)
(* Properties of the lexical scores in the pipeline                        *)
(***************************************************************************)

\* Whether a text shares a whitespace token with the query, case ignored.
SharesToken(query, text) ==
    ToSet(Split(Lower(query))) \cap ToSet(Split(Lower(text))) # {}

\* The frame in search is that of the Stage 1 hybrid search of the run,
\* which returned.
Stage1FrameKept ==
    /\ search # None
    /\ pc \in {"stage2", "stage2_fallback", "generate", "done"}
    /\ calls # <<>>
    /\ calls[1].fn = "hybrid_search"
    /\ calls[1].ok
    /\ search.k = Stage1K
    /\ search.query = original_query

\* Some chunk of the corpus shares a token with the query of the frame and
\* its fingerprint is not among the semantic hits of the frame.
LexicalOnlyChunk ==
    \E i \in 1..Len(vectorstore.documents) :
        /\ SharesToken(search.query, vectorstore.documents[i])
        /\ \A j \in 1..Len(search.semantic_docs) :
               Take(search.semantic_docs[j][1].page_content, 100)
                   # Take(vectorstore.documents[i], 100)

\* C21: every lexical candidate has a score in (0, 1/2]; hence, whenever
\* the Stage 1 hybrid search returns and some chunk of the corpus shares a
\* token with the query while its fingerprint is not among the semantic
\* hits, the best Stage 1 score is at most 1/2, Stage 2 is not run, and the
\* threshold filter (score < 1.2) keeps at least one chunk, so the relevant
\* set is the filtered list and not the top-3 fallback, however large the
\* semantic distances are.
C21_LexicalScores ==
    /\ search # None =>
           \A i \in 1..Len(search.keyword_matches) :
               /\ ScoreLT(<<0, 1>>, search.keyword_matches[i][2])
               /\ ScoreLE(search.keyword_matches[i][2], <<1, 2>>)
    /\ (Stage1FrameKept /\ LexicalOnlyChunk) =>
           /\ search.result # <<>>
           /\ ScoreLE(search.result[1][2], <<1, 2>>)
           /\ pc \in {"generate", "done"}
           /\ \A i \in 1..Len(calls) : ~IsStage2(calls[i])
           /\ docs_with_scores = search.result
           /\ (pc = "done" /\ GenerationCalled) =>
                  LET below == {i \in 1..Len(docs_with_scores) :
                                   ScoreLT(docs_with_scores[i][2], <<6, 5>>)}
                  IN  /\ below # {}
                      /\ Len(relevant_docs) = Cardinality(below)
                      /\ \A j \in 1..Len(relevant_docs) :
                             \E i \in below :
                                 relevant_docs[j] = docs_with_scores[i][1]

\* A run over semantic distances all above the widening limit and none
\* below the threshold, where a chunk found by the lexical scan only
\* brought the best score down to 1/2 or less: the run went from Stage 1
\* to the generation with a relevant set that the threshold filter made.
C21_Witness ==
    /\ Stage1FrameKept
    /\ LexicalOnlyChunk
    /\ pc = "done"
    /\ GenerationCalled
    /\ search.semantic_docs # <<>>
    /\ \A j \in 1..Len(search.semantic_docs) :
           ScoreLE(<<6, 5>>, search.semantic_docs[j][2])
    /\ relevant_docs # <<>>
    /\ Len(relevant_docs) < Len(docs_with_scores)

(***************************************************************************)
(* Properties of the order of the turns                                    *)
(***************************************************************************)

\* The turns are user, assistant, user, assistant, ... from the first on.
Alternates(turns) ==
    \A i \in 1..Len(turns) :
        turns[i].role = IF i % 2 = 1 THEN "user" ELSE "assistant"

\* C22: in every session state between requests, after any sequence of
\* successful requests, failed requests and resets, the turns alternate
\* user, assistant, user, assistant, ... from a user turn on, and their
\* number is even; so, during a request, the last turn is the user turn in
\* flight and the turns rendered before it alternate.
C22_TurnsAlternate ==
    /\ pc = "idle" => Alternates(messages) /\ Len(messages) % 2 = 0
    /\ pc \in {"stage1", "stage1_fallback", "stage2", "stage2_fallback",
               "generate"}
           => /\ Alternates(messages)
              /\ Len(messages) % 2 = 1

\* The turns alternate in streamlit_app_multilingual.py, whose except
\* handler answers the user turn of a failed request with an error turn.
C22_MultilingualAlternates ==
    app = "streamlit_app_multilingual" => C22_TurnsAlternate

\* A failed request of streamlit_app_multilingual.py has ended with its
\* two turns in the list.
C22_MultilingualFailed ==
    /\ app = "streamlit_app_multilingual"
    /\ pc = "idle"
    /\ failed
    /\ Len(messages) >= 4

=============================================================================
